---------------------------- MODULE Spec2Model ----------------------------
(***************************************************************************)
(* A state-machine model of src/tkintertokivy.py: the runtime shim that    *)
(* registers fake tkinter modules in sys.modules and the fake classes      *)
(* (FakeTk, the widget classes, the variable classes) those modules hold.  *)
(*                                                                         *)
(* The shim is a set of loosely coupled objects, so the model is a set of  *)
(* sub-machines over disjoint variables, each with its own specification:  *)
(*   SpecModules   auto_translate_mode / disable_auto_translate            *)
(*   SpecVar       FakeStringVar / FakeIntVar / FakeDoubleVar /            *)
(*                 FakeBooleanVar: set, trace, trace_remove, trace_info    *)
(*   SpecAfter     FakeTk.after / FakeCanvas.after / after_cancel and the  *)
(*                 worker threads they start                               *)
(*   SpecGeom      pack / grid / place of the widget classes and mainloop  *)
(*   SpecRadio     FakeRadiobutton get / set / select / deselect           *)
(*   SpecCheck     FakeCheckbutton set / select / deselect                 *)
(*   SpecWm        FakeTk withdraw / iconify / deiconify / wm_state        *)
(*   SpecButton    translate_button on the text of a Button call           *)
(*   SpecTranslate translate, line by line                                 *)
(* A sub-machine's specification leaves the other sub-machines' variables  *)
(* at their initial values.                                                *)
(***************************************************************************)
EXTENDS Integers, Sequences, FiniteSets, TLC

VARIABLES
    \* ---- sys.modules and the shim's module-level state
    sys_modules,        \* sys.modules restricted to the four tkinter names
    original_modules,   \* _original_modules (line 37), key 'tkinter' only
    modAttrs,           \* generation -> the font/ttk/messagebox attributes of that fake tkinter
    nFake,              \* number of auto_translate_mode() calls made so far
    lastRet,            \* value returned by the last auto_translate_mode() call
    modOp,              \* the last operation performed: "none", "auto", "disable", "import"
    modHist,            \* shape of the call history: "none", "autos", "autos_disable", "other"
    firstOriginal       \* sys.modules['tkinter'] just before the first auto_translate_mode() call

    \* ---- one tkinter variable object (FakeStringVar/IntVar/DoubleVar/BooleanVar)
VARIABLES
    varKind,            \* which of the four classes the object is
    varValue,           \* self._value
    varCallbacks,       \* self._callbacks: the callbacks in registration order
    varOp,              \* the last method called: "init", "set", "trace", "trace_remove", "trace_info"
    varOld,             \* old_value of the last set() call
    varLog,             \* the callbacks invoked by the last set() call, in order
    varRaised,          \* whether the last set() call raised to its caller
    varRet,             \* value returned by the last trace() / trace_info() call
    varNames,           \* name returned by trace() -> the callback it was returned for
    varRemoved          \* names that were passed to trace_remove()

    \* ---- after() jobs of one FakeTk and one FakeCanvas
VARIABLES
    afterThreads,       \* the threading.Thread objects started by after(), in start order
    afterJobs,          \* owner -> self._after_jobs: job id -> index of its thread (0: no such key)
    afterPending,       \* index of the thread whose after() call has not returned yet (0: none)
    afterRet            \* job id returned by the last after() call (0: none yet)

afterVars == <<afterThreads, afterJobs, afterPending, afterRet>>

    \* ---- one FakeTk window
VARIABLES
    wmWithdrawn,        \* self._withdrawn: "unset" (no such attribute), "True" or "False"
    wmIconified,        \* self._iconified: "unset" or "True"
    wmDestroyed,        \* self._destroyed: "unset" or "True"
    wmDeleteHandler,    \* self._protocols["WM_DELETE_WINDOW"]: "unset", "returns" or "raises"
    wmHandlerCalls,     \* times the WM_DELETE_WINDOW handler was called
    wmCall,             \* the last method called on the window
    wmArg,              \* its argument ("" when it has none)
    wmRet,              \* what the last wm_state() / winfo_exists() call returned ("" before any)
    wmBefore            \* the call (and argument) that immediately preceded the last wm_state() query

wmVars == <<wmWithdrawn, wmIconified, wmDestroyed, wmDeleteHandler, wmHandlerCalls,
            wmCall, wmArg, wmRet, wmBefore>>

    \* ---- one FakeCheckbutton (its variable, when it has one, is the variable object above)
VARIABLES
    chkKivy,            \* whether Kivy could be imported when the widget was built
    chkHasVar,          \* whether a variable= was given (self._variable is not None)
    chkValue,           \* self._value: the value= option, the value the variable gets when checked
    chkIsChecked,       \* self._is_checked
    chkActive,          \* self.kivy_checkbutton.active (FALSE without Kivy: a str has no such attribute)
    chkCall,            \* the last method called
    chkArg              \* the argument of the last set() call

chkVars == <<chkKivy, chkHasVar, chkValue, chkIsChecked, chkActive, chkCall, chkArg>>

    \* ---- FakeRadiobuttons built with one shared variable (the variable object above)
VARIABLES
    radKivy,            \* whether Kivy could be imported when the widgets were built
    radValue,           \* i -> self._value of the i-th radiobutton
    radSelected,        \* i -> self._is_selected
    radActive,          \* i -> self.kivy_radiobutton.active (FALSE without Kivy: a str has no such attribute)
    radCall,            \* the last method called
    radWho              \* the radiobutton it was called on (0: none)

radVars == <<radKivy, radValue, radSelected, radActive, radCall, radWho>>

\* Widgets and geometry managers (pack / grid / place, FakeTk.mainloop).
\* Widgets are numbered; container 0 is the FakeTk root.
VARIABLES
    geoKivy,        \* Kivy importable: the Kivy objects are widgets, else strings
    geoCls,         \* widget -> its shim class
    geoParent,      \* widget -> its parent (0 or a FakeFrame)
    geoText,        \* widget -> its 'text' option (the kwargs of the widget)
    geoLists,       \* container -> its _widgets list
    geoChildren,    \* FakeFrame -> kivy_frame.children, oldest first
    geoKParent,     \* widget -> the layout holding its Kivy widget (NoLayout: none)
    geoPlaced,      \* widgets on which pack(), grid() or place() was called
    geoPacked,      \* widgets on which pack() itself was called
    geoCall,        \* the last operation
    geoWho,         \* the widget it was called on
    geoMain,        \* outcome of mainloop(): "not run", "built", "listed", "raised"
    geoLayout,      \* what mainloop() built (AutoApp.layout) or listed
    geoCalls        \* number of geometry calls made so far

geomVars == <<geoKivy, geoCls, geoParent, geoText, geoLists, geoChildren,
             geoKParent, geoPlaced, geoPacked, geoCall, geoWho, geoMain, geoLayout, geoCalls>>

\* translate_button: source text is a sequence of tokens (a run of word
\* characters, or one punctuation or space character).
VARIABLES
    btnCallee,      \* what is called: Button, tk.Button or another widget
    btnParent,      \* the call has a leading positional parent
    btnArgs,        \* the keyword arguments of the call: <<[name, value], ...>>
    btnInput,       \* tkinter_button_code
    btnOutput       \* the returned string, NotTranslated before the call

btnVars == <<btnCallee, btnParent, btnArgs, btnInput, btnOutput>>

\* translate: the loop over the lines of tkinter_code.
VARIABLES
    trInput,              \* the lines read so far
    kivy_lines,           \* the output lines built so far
    imports_added,
    app_structure_added,
    in_build_method,
    trResult              \* the returned lines, NotReturned while in the loop

trVars == <<trInput, kivy_lines, imports_added, app_structure_added,
            in_build_method, trResult>>

modVars == <<sys_modules, original_modules, modAttrs, nFake, lastRet, modOp, modHist, firstOriginal>>

varVars == <<varKind, varValue, varCallbacks, varOp, varOld, varLog,
             varRaised, varRet, varNames, varRemoved>>

\* ---- frames: the variables a sub-machine leaves unchanged
vars == <<modVars, varVars, afterVars, wmVars, chkVars, radVars, geomVars, btnVars, trVars>>
exceptMod == <<varVars, afterVars, wmVars, chkVars, radVars, geomVars, btnVars, trVars>>
exceptVar == <<modVars, afterVars, wmVars, chkVars, radVars, geomVars, btnVars, trVars>>
exceptAfter == <<modVars, varVars, wmVars, chkVars, radVars, geomVars, btnVars, trVars>>
exceptWm == <<modVars, varVars, afterVars, chkVars, radVars, geomVars, btnVars, trVars>>
exceptChk == <<modVars, afterVars, wmVars, radVars, geomVars, btnVars, trVars>>
exceptRad == <<modVars, afterVars, wmVars, chkVars, geomVars, btnVars, trVars>>
exceptGeom == <<modVars, varVars, afterVars, wmVars, chkVars, radVars, btnVars, trVars>>
exceptBtn == <<modVars, varVars, afterVars, wmVars, chkVars, radVars, geomVars, trVars>>
exceptTr == <<modVars, varVars, afterVars, wmVars, chkVars, radVars, geomVars, btnVars>>
\* ---- end of frames

-----------------------------------------------------------------------------
(***************************************************************************)
(* sys.modules, auto_translate_mode, disable_auto_translate                *)
(***************************************************************************)

\* Upper bound on the number of auto_translate_mode() calls explored.
MaxCalls == 4

ModNames == {"tkinter", "tkinter.font", "tkinter.ttk", "tkinter.messagebox"}
SubNames == ModNames \ {"tkinter"}

\* A module object: absent entry, the interpreter's real module, or the fake
\* module of that name built by the gen-th auto_translate_mode() call.
NoModule == [kind |-> "none", name |-> "", gen |-> 0]
RealModule(n) == [kind |-> "real", name |-> n, gen |-> 0]
FakeModule(n, g) == [kind |-> "fake", name |-> n, gen |-> g]

\* The interpreter before the shim is imported: tkinter may or may not have
\* been imported already, and a sub-module only together with its package.
InitModules ==
    /\ \E pkg \in BOOLEAN, subs \in SUBSET SubNames :
          sys_modules = [n \in ModNames |->
                            IF n = "tkinter"
                            THEN IF pkg THEN RealModule(n) ELSE NoModule
                            ELSE IF pkg /\ n \in subs THEN RealModule(n) ELSE NoModule]
    /\ original_modules = NoModule
    /\ modAttrs = <<>>
    /\ nFake = 0
    /\ lastRet = NoModule
    /\ modOp = "none"
    /\ modHist = "none"
    /\ firstOriginal = NoModule

\* A variant of auto_translate_mode that forgets to register tkinter.ttk.
AutoTranslateModeNoTtk ==
    /\ nFake < MaxCalls
    /\ LET g == nFake + 1 IN
       /\ nFake' = g
       /\ original_modules' = IF sys_modules["tkinter"] # NoModule
                              THEN sys_modules["tkinter"] ELSE original_modules
       /\ modAttrs' = Append(modAttrs, [n \in SubNames |-> FakeModule(n, g)])
       /\ sys_modules' = [n \in ModNames |->
                             IF n = "tkinter.ttk" THEN sys_modules[n] ELSE FakeModule(n, g)]
       /\ lastRet' = FakeModule("tkinter", g)
       /\ firstOriginal' = IF nFake = 0 THEN sys_modules["tkinter"] ELSE firstOriginal
       /\ modOp' = "auto"
       /\ modHist' = IF modHist \in {"none", "autos"} THEN "autos" ELSE "other"

\* auto_translate_mode(): lines 39-49 and 3384-3654.  The first call is the
\* one the module makes when it is imported (line 3986).
AutoTranslateMode ==
    /\ nFake < MaxCalls
    /\ LET g == nFake + 1 IN
       /\ nFake' = g
       \* lines 48-49: store the current entry as "original", whatever it is
       /\ original_modules' = IF sys_modules["tkinter"] # NoModule
                              THEN sys_modules["tkinter"] ELSE original_modules
       \* lines 3643-3645: attributes of the new fake tkinter
       /\ modAttrs' = Append(modAttrs, [n \in SubNames |-> FakeModule(n, g)])
       \* lines 3648-3651
       /\ sys_modules' = [n \in ModNames |-> FakeModule(n, g)]
       \* line 3654
       /\ lastRet' = FakeModule("tkinter", g)
       /\ firstOriginal' = IF nFake = 0 THEN sys_modules["tkinter"] ELSE firstOriginal
       /\ modOp' = "auto"
       /\ modHist' = IF modHist \in {"none", "autos"} THEN "autos" ELSE "other"

\* disable_auto_translate(): lines 3656-3671.  Callable once the shim is imported.
DisableAutoTranslate ==
    /\ nFake >= 1
    /\ sys_modules' = [n \in ModNames |->
                          IF n = "tkinter"
                          THEN original_modules   \* restore, or delete when nothing stored
                          ELSE NoModule]
    /\ modOp' = "disable"
    /\ modHist' = IF modHist = "autos" THEN "autos_disable" ELSE "other"
    /\ UNCHANGED <<original_modules, modAttrs, nFake, lastRet, firstOriginal>>

\* The program runs "import tkinter" (or a sub-module) while sys.modules has
\* no entry for it: the interpreter loads and registers the real module.
ImportReal ==
    /\ nFake >= 1
    /\ \E n \in ModNames :
          /\ sys_modules[n] = NoModule
          /\ n # "tkinter" => sys_modules["tkinter"] = RealModule("tkinter")
          /\ sys_modules' = [sys_modules EXCEPT ![n] = RealModule(n)]
    /\ modOp' = "import"
    /\ modHist' = "other"
    /\ UNCHANGED <<original_modules, modAttrs, nFake, lastRet, firstOriginal>>

IdleModules ==
    /\ sys_modules = [n \in ModNames |-> NoModule]
    /\ original_modules = NoModule
    /\ modAttrs = <<>>
    /\ nFake = 0
    /\ lastRet = NoModule
    /\ modOp = "none"
    /\ modHist = "none"
    /\ firstOriginal = NoModule

-----------------------------------------------------------------------------
(***************************************************************************)
(* Python values and the built-in conversions str(), int(), float() and    *)
(* bool() that the variable classes apply to what they are given.          *)
(***************************************************************************)

\* Largest int, and largest float counted in halves, among the values passed in.
MaxInt == 1
MaxHalves == 3

\* A Python value: t is its type, n its number (a float's is counted in
\* halves, so 1.5 has n = 3), s its text.
PyInt(n) == [t |-> "int", n |-> n, s |-> ""]
PyStr(s) == [t |-> "str", n |-> 0, s |-> s]
PyBool(b) == [t |-> "bool", n |-> IF b THEN 1 ELSE 0, s |-> ""]
PyFloat(h) == [t |-> "float", n |-> h, s |-> ""]
PyNone == [t |-> "none", n |-> 0, s |-> ""]

IsNumber(v) == v.t \in {"int", "bool", "float"}
Halves(v) == IF v.t = "float" THEN v.n ELSE 2 * v.n

\* Python's ==: numbers compare by value across int, bool and float; a str
\* equals only an equal str, None only None.
PyEq(a, b) ==
    IF IsNumber(a) /\ IsNumber(b) THEN Halves(a) = Halves(b)
    ELSE a.t = b.t /\ a.s = b.s

\* bool(v)
Truthy(v) ==
    CASE IsNumber(v) -> v.n # 0
      [] v.t = "str" -> v.s # ""
      [] OTHER -> FALSE

\* isinstance(v, int): bool is a subclass of int
IsInstanceInt(v) == v.t \in {"int", "bool"}

Digits == <<"0", "1", "2", "3", "4", "5", "6", "7", "8", "9">>

RECURSIVE NatStr(_)
NatStr(n) == IF n < 10 THEN Digits[n + 1] ELSE NatStr(n \div 10) \o Digits[(n % 10) + 1]

\* str() of a non-negative float given in halves: 3 -> "1.5", 2 -> "1.0"
FloatStr(h) == NatStr(h \div 2) \o (IF h % 2 = 0 THEN ".0" ELSE ".5")

\* str(v)
StrOf(v) ==
    CASE v.t = "str" -> v.s
      [] v.t = "int" -> NatStr(v.n)
      [] v.t = "bool" -> IF v.n = 1 THEN "True" ELSE "False"
      [] v.t = "float" -> FloatStr(v.n)
      [] OTHER -> "None"

\* The text is a decimal integer literal (the ones int() and float() parse here).
IsIntText(s) == \E n \in 0..(MaxInt + 1) : NatStr(n) = s
IntOfText(s) == CHOOSE n \in 0..(MaxInt + 1) : NatStr(n) = s
IsFloatText(s) == \E h \in 0..(MaxHalves + 1) : FloatStr(h) = s
HalvesOfText(s) == CHOOSE h \in 0..(MaxHalves + 1) : FloatStr(h) = s

\* int(v) raises ValueError (bad text) or TypeError (None)
IntRaises(v) == (v.t = "str" /\ ~IsIntText(v.s)) \/ v.t = "none"
IntOf(v) ==
    CASE v.t = "str" -> IntOfText(v.s)
      [] v.t = "float" -> v.n \div 2
      [] OTHER -> v.n

\* float(v) raises ValueError (bad text) or TypeError (None)
FloatRaises(v) == (v.t = "str" /\ ~IsIntText(v.s) /\ ~IsFloatText(v.s)) \/ v.t = "none"
HalvesOf(v) ==
    CASE v.t = "str" -> IF IsIntText(v.s) THEN 2 * IntOfText(v.s) ELSE HalvesOfText(v.s)
      [] v.t = "float" -> v.n
      [] OTHER -> 2 * v.n

RawStrings == {"", "1", "on"}

\* The values a caller passes to a constructor or to set().
RawValues ==
    {PyInt(n) : n \in 0..MaxInt} \cup {PyStr(s) : s \in RawStrings}
      \cup {PyBool(b) : b \in BOOLEAN} \cup {PyFloat(h) : h \in {0, MaxHalves}}
      \cup {PyNone}

-----------------------------------------------------------------------------
(***************************************************************************)
(* FakeStringVar, FakeIntVar, FakeDoubleVar, FakeBooleanVar                *)
(***************************************************************************)

\* Bound on the number of registered trace callbacks.
MaxTraces == 2

VarKinds == {"StringVar", "IntVar", "DoubleVar", "BooleanVar"}
\* The functions the program registers as trace callbacks.
Callbacks == {"on_change", "refresh"}

\* The value a variable of class kind stores when given v: __init__ and set()
\* of each class (lines 2465/2475, 2508-2511/2521-2524, 2556-2559/2569-2572,
\* 2604/2614).
VarConv(kind, v) ==
    CASE kind = "StringVar" -> PyStr(StrOf(v))
      [] kind = "IntVar" -> IF IntRaises(v) THEN PyInt(0) ELSE PyInt(IntOf(v))
      [] kind = "DoubleVar" -> IF FloatRaises(v) THEN PyFloat(0) ELSE PyFloat(HalvesOf(v))
      [] OTHER -> PyBool(Truthy(v))

\* f"trace_{k}"
TraceName(k) == <<"trace_", k>>

\* trace_info(): names count from 0 (enumerate)
TraceInfo(cbs) == [i \in 1..Len(cbs) |-> [name |-> TraceName(i - 1), mode |-> "write", callback |-> cbs[i]]]

\* A variant of the callback loop that gives up at the first callback that raises.
RECURSIVE RunCallbacksStopAtError(_, _, _)
RunCallbacksStopAtError(cbs, raises, i) ==
    IF i > Len(cbs) THEN <<>>
    ELSE IF raises[i] THEN <<[callback |-> cbs[i], raised |-> TRUE]>>
    ELSE <<[callback |-> cbs[i], raised |-> FALSE]>> \o RunCallbacksStopAtError(cbs, raises, i + 1)

\* "for callback in self._callbacks: try: callback() except Exception: print":
\* the calls made from the i-th callback on; raises[i] says whether the i-th
\* call raises an Exception, which is caught and the loop goes on.
RECURSIVE RunCallbacks(_, _, _)
RunCallbacks(cbs, raises, i) ==
    IF i > Len(cbs) THEN <<>>
    ELSE <<[callback |-> cbs[i], raised |-> raises[i]]>> \o RunCallbacks(cbs, raises, i + 1)

\* A variant of the change test that compares with the value as passed.
ValueChangedRaw(old, new, raw) == ~PyEq(old, raw)

\* "if old_value != self._value"
ValueChanged(old, new, raw) == ~PyEq(old, new)

InitVar ==
    /\ varKind \in VarKinds
    /\ \E v \in RawValues : varValue = VarConv(varKind, v)
    /\ varCallbacks = <<>>
    /\ varOp = "init"
    /\ varOld = varValue
    /\ varLog = <<>>
    /\ varRaised = FALSE
    /\ varRet = TraceName(0)
    /\ varNames = <<>>
    /\ varRemoved = {}

IdleVar ==
    /\ varKind = "StringVar"
    /\ varValue = PyStr("")
    /\ varCallbacks = <<>>
    /\ varOp = "init"
    /\ varOld = PyStr("")
    /\ varLog = <<>>
    /\ varRaised = FALSE
    /\ varRet = TraceName(0)
    /\ varNames = <<>>
    /\ varRemoved = {}

\* set(value): lines 2472-2485, 2518-2534, 2566-2582, 2611-2624
VarSetEffect(v, raises) ==
    LET new == VarConv(varKind, v) IN
    /\ varOld' = varValue
    /\ varValue' = new
    /\ varLog' = IF ValueChanged(varValue, new, v)
                 THEN RunCallbacks(varCallbacks, raises, 1) ELSE <<>>
    /\ varRaised' = FALSE
    /\ varOp' = "set"
    /\ UNCHANGED <<varKind, varCallbacks, varRet, varNames, varRemoved>>

\* Two set(v) calls in a row with the same argument: the second finds the
\* value unchanged and calls no callback.
VarSetTwiceEffect(v) ==
    LET new == VarConv(varKind, v) IN
    /\ varOld' = new
    /\ varValue' = new
    /\ varLog' = <<>>
    /\ varRaised' = FALSE
    /\ varOp' = "set"
    /\ UNCHANGED <<varKind, varCallbacks, varRet, varNames, varRemoved>>

VarSet ==
    \E v \in RawValues, raises \in [1..Len(varCallbacks) -> BOOLEAN] :
        VarSetEffect(v, raises)

\* trace(mode, callback): lines 2487-2491, 2536-2540, 2584-2588, 2626-2630
VarTrace ==
    /\ Len(varCallbacks) < MaxTraces
    /\ \E cb \in Callbacks :
          /\ varCallbacks' = Append(varCallbacks, cb)
          /\ varRet' = TraceName(Len(varCallbacks) + 1)
          /\ varNames' = Append(varNames, [name |-> TraceName(Len(varCallbacks) + 1), callback |-> cb])
    /\ varOp' = "trace"
    /\ UNCHANGED <<varKind, varValue, varOld, varLog, varRaised, varRemoved>>

\* trace_remove(mode, cbname): lines 2493-2496, 2542-2544, 2590-2592,
\* 2632-2634: prints, and changes nothing of the object.
VarTraceRemove ==
    /\ \E k \in 0..Len(varCallbacks) : varRemoved' = varRemoved \cup {TraceName(k)}
    /\ varOp' = "trace_remove"
    /\ UNCHANGED <<varKind, varValue, varCallbacks, varOld, varLog, varRaised,
                   varRet, varNames>>

\* The "callback error" lines the last set() call printed.
VarErrors == Cardinality({i \in 1..Len(varLog) : varLog[i].raised})

NextVar ==
    \/ VarSet /\ UNCHANGED exceptVar
    \/ VarTrace /\ UNCHANGED exceptVar
    \/ VarTraceRemove /\ UNCHANGED exceptVar

-----------------------------------------------------------------------------
(***************************************************************************)
(* FakeTk.after / after_cancel and FakeCanvas.after / after_cancel         *)
(***************************************************************************)

\* Bounds: after() calls explored, and distinct job ids randint can give.
MaxJobs == 2
MaxJobIds == 2

Owners == {"tk", "canvas"}
JobIds == 1..MaxJobIds
\* The delay arguments, in milliseconds.
Delays == {-1, 0, 100}

NoJobs == [id \in JobIds |-> 0]

\* time.sleep(delay / 1000.0) raises ValueError for a negative argument.
SleepRaises(delay) == delay < 0

\* delayed_call, first statement (lines 413, 1251): the worker thread sleeps;
\* the sleep is outside any try, so a ValueError ends the thread.
AfterSleep(t) == [t EXCEPT !.pc = IF SleepRaises(t.delay) THEN "died" ELSE "woke"]

\* delayed_call, the call (lines 414-417, 1252): func(*args) runs on the worker
\* thread; FakeTk catches an Exception it raises, FakeCanvas lets it end the thread.
AfterInvoke(t, raises) ==
    [t EXCEPT !.runs = @ + 1,
              !.ranOn = "worker",
              !.pc = IF raises /\ t.owner = "canvas" THEN "died" ELSE "done"]

InitAfter ==
    /\ afterThreads = <<>>
    /\ afterJobs = [o \in Owners |-> NoJobs]
    /\ afterPending = 0
    /\ afterRet = 0

\* after(delay, func, *args) up to thread.start() (lines 406-423, 1245-1257)
AfterCall ==
    /\ afterPending = 0
    /\ Len(afterThreads) < MaxJobs
    /\ \E o \in Owners, d \in Delays :
          afterThreads' = Append(afterThreads,
              [owner |-> o, delay |-> d, pc |-> "started", jobId |-> 0,
               runs |-> 0, ranOn |-> "none", cancelled |-> FALSE])
    /\ afterPending' = Len(afterThreads) + 1
    /\ UNCHANGED <<afterJobs, afterRet>>

\* after(): the rest (lines 425-431, 1259-1265): draw a job id, record the
\* thread under it (replacing an earlier job that drew the same id), return it.
AfterReturn ==
    /\ afterPending # 0
    /\ \E id \in JobIds :
          /\ afterJobs' = [afterJobs EXCEPT ![afterThreads[afterPending].owner][id] = afterPending]
          /\ afterThreads' = [afterThreads EXCEPT ![afterPending].jobId = id]
          /\ afterRet' = id
    /\ afterPending' = 0

\* after_cancel(job_id) (lines 433-440, 1267-1274): forget the id; the thread
\* is left alone.  cancelled notes that the call named a job whose callback
\* had not started.
AfterCancel ==
    /\ afterPending = 0
    /\ \E o \in Owners, id \in JobIds :
          /\ afterJobs' = [afterJobs EXCEPT ![o][id] = 0]
          /\ afterThreads' = [i \in 1..Len(afterThreads) |->
                IF /\ afterThreads[i].owner = o
                   /\ afterThreads[i].jobId = id
                   /\ afterThreads[i].runs = 0
                   /\ afterThreads[i].pc \in {"started", "woke"}
                THEN [afterThreads[i] EXCEPT !.cancelled = TRUE]
                ELSE afterThreads[i]]
    /\ UNCHANGED <<afterPending, afterRet>>

\* A worker thread's sleep ends.
ThreadWake ==
    /\ \E i \in 1..Len(afterThreads) :
          /\ afterThreads[i].pc = "started"
          /\ afterThreads' = [afterThreads EXCEPT ![i] = AfterSleep(@)]
    /\ UNCHANGED <<afterJobs, afterPending, afterRet>>

\* A worker thread calls func(*args), which returns or raises an Exception.
ThreadRun ==
    /\ \E i \in 1..Len(afterThreads), raises \in BOOLEAN :
          /\ afterThreads[i].pc = "woke"
          /\ afterThreads' = [afterThreads EXCEPT ![i] = AfterInvoke(@, raises)]
    /\ UNCHANGED <<afterJobs, afterPending, afterRet>>

IdleAfter == InitAfter

NextAfter ==
    \/ AfterCall /\ UNCHANGED exceptAfter
    \/ AfterReturn /\ UNCHANGED exceptAfter
    \/ AfterCancel /\ UNCHANGED exceptAfter
    \/ ThreadWake /\ UNCHANGED exceptAfter
    \/ ThreadRun /\ UNCHANGED exceptAfter

-----------------------------------------------------------------------------
(***************************************************************************)
(* FakeTk: withdraw, iconify, deiconify, wm_state, protocol, destroy,      *)
(* winfo_exists                                                            *)
(***************************************************************************)

\* Bound on the WM_DELETE_WINDOW handler calls counted.
MaxHandlerCalls == 2

WmStates == {"withdrawn", "iconic", "normal"}

\* wm_state() with no argument: lines 389-395 (getattr(..., False))
WmStateQuery ==
    IF wmWithdrawn = "True" THEN "withdrawn"
    ELSE IF wmIconified = "True" THEN "iconic"
    ELSE "normal"

InitWm ==
    /\ wmWithdrawn = "unset"
    /\ wmIconified = "unset"
    /\ wmDestroyed = "unset"
    /\ wmDeleteHandler = "unset"
    /\ wmHandlerCalls = 0
    /\ wmCall = "__init__"
    /\ wmArg = ""
    /\ wmRet = ""
    /\ wmBefore = <<"", "">>

IdleWm == InitWm

\* withdraw(): lines 187-190
WithdrawEffect ==
    /\ wmWithdrawn' = "True"
    /\ UNCHANGED wmIconified

\* iconify(): lines 197-200
IconifyEffect ==
    /\ wmIconified' = "True"
    /\ UNCHANGED wmWithdrawn

\* deiconify(): lines 192-195
DeiconifyEffect ==
    /\ wmWithdrawn' = "False"
    /\ UNCHANGED wmIconified

Withdraw ==
    /\ WithdrawEffect
    /\ wmCall' = "withdraw" /\ wmArg' = ""
    /\ UNCHANGED <<wmDestroyed, wmDeleteHandler, wmHandlerCalls, wmRet, wmBefore>>

Iconify ==
    /\ IconifyEffect
    /\ wmCall' = "iconify" /\ wmArg' = ""
    /\ UNCHANGED <<wmDestroyed, wmDeleteHandler, wmHandlerCalls, wmRet, wmBefore>>

Deiconify ==
    /\ DeiconifyEffect
    /\ wmCall' = "deiconify" /\ wmArg' = ""
    /\ UNCHANGED <<wmDestroyed, wmDeleteHandler, wmHandlerCalls, wmRet, wmBefore>>

\* wm_state(state) with an argument: lines 396-404
WmStateSet ==
    /\ \E s \in WmStates :
          /\ CASE s = "withdrawn" -> WithdrawEffect
               [] s = "iconic" -> IconifyEffect
               [] OTHER -> DeiconifyEffect
          /\ wmArg' = s
          /\ wmRet' = s
    /\ wmCall' = "wm_state"
    /\ UNCHANGED <<wmDestroyed, wmDeleteHandler, wmHandlerCalls, wmBefore>>

\* wm_state(): lines 389-395
WmStateGet ==
    /\ wmRet' = WmStateQuery
    /\ wmBefore' = <<wmCall, wmArg>>
    /\ wmCall' = "wm_state?" /\ wmArg' = ""
    /\ UNCHANGED <<wmWithdrawn, wmIconified, wmDestroyed, wmDeleteHandler, wmHandlerCalls>>

\* protocol("WM_DELETE_WINDOW", func): lines 329-350; func returns or raises when called
Protocol ==
    /\ \E h \in {"returns", "raises"} : wmDeleteHandler' = h
    /\ wmCall' = "protocol" /\ wmArg' = "WM_DELETE_WINDOW"
    /\ UNCHANGED <<wmWithdrawn, wmIconified, wmDestroyed, wmHandlerCalls, wmRet, wmBefore>>

\* destroy(): lines 352-363
Destroy ==
    /\ wmHandlerCalls' = IF wmDeleteHandler # "unset" /\ wmHandlerCalls < MaxHandlerCalls
                         THEN wmHandlerCalls + 1 ELSE wmHandlerCalls
    /\ wmDestroyed' = "True"
    /\ wmCall' = "destroy" /\ wmArg' = ""
    /\ UNCHANGED <<wmWithdrawn, wmIconified, wmDeleteHandler, wmRet, wmBefore>>

\* winfo_exists(): lines 173-175
WinfoExists ==
    /\ wmRet' = "True"
    /\ wmCall' = "winfo_exists" /\ wmArg' = ""
    /\ UNCHANGED <<wmWithdrawn, wmIconified, wmDestroyed, wmDeleteHandler, wmHandlerCalls, wmBefore>>

NextWm ==
    \/ Withdraw /\ UNCHANGED exceptWm
    \/ Iconify /\ UNCHANGED exceptWm
    \/ Deiconify /\ UNCHANGED exceptWm
    \/ WmStateSet /\ UNCHANGED exceptWm
    \/ WmStateGet /\ UNCHANGED exceptWm
    \/ Protocol /\ UNCHANGED exceptWm
    \/ Destroy /\ UNCHANGED exceptWm
    \/ WinfoExists /\ UNCHANGED exceptWm

-----------------------------------------------------------------------------
(***************************************************************************)
(* FakeCheckbutton                                                         *)
(***************************************************************************)

\* A variant of the unchecked value that is 0 whatever the type of value=.
ChkOffValueAlwaysZero(v) == PyInt(0)

\* "0 if isinstance(self._value, int) else ''": lines 2684, 2721
ChkOffValue(v) == IF IsInstanceInt(v) THEN PyInt(0) ELSE PyStr("")

\* get(): lines 2702-2706
ChkGet ==
    IF chkKivy THEN (IF chkActive THEN chkValue ELSE PyInt(0))
    ELSE (IF chkIsChecked THEN PyInt(1) ELSE PyInt(0))

\* __init__ and _create_kivy_checkbutton: lines 2645-2700
InitCheck ==
    /\ chkKivy \in BOOLEAN
    /\ chkHasVar \in BOOLEAN
    /\ chkValue \in RawValues
    /\ chkIsChecked \in BOOLEAN
    /\ chkActive = IF chkKivy
                   THEN (IF chkHasVar THEN PyEq(varValue, chkValue) ELSE chkIsChecked)
                   ELSE FALSE
    /\ chkCall = "__init__"
    /\ chkArg = PyNone

IdleCheck ==
    /\ chkKivy = FALSE
    /\ chkHasVar = FALSE
    /\ chkValue = PyInt(1)
    /\ chkIsChecked = FALSE
    /\ chkActive = FALSE
    /\ chkCall = "__init__"
    /\ chkArg = PyNone

\* set(value): lines 2708-2723.  With Kivy, assigning a different value to
\* active dispatches on_checkbox_change (lines 2680-2685), which sets the
\* variable before set() sets it again.
ChkSetEffect(value) ==
    LET is_checked == Truthy(value)
        target == IF is_checked THEN chkValue ELSE ChkOffValue(chkValue)
        dispatched == chkKivy /\ chkActive # is_checked
    IN  /\ chkIsChecked' = is_checked
        /\ chkActive' = IF chkKivy THEN is_checked ELSE chkActive
        /\ IF chkHasVar
           THEN IF dispatched THEN VarSetTwiceEffect(target)
                ELSE VarSetEffect(target, [i \in 1..Len(varCallbacks) |-> FALSE])
           ELSE UNCHANGED varVars
        /\ UNCHANGED <<chkKivy, chkHasVar, chkValue>>

ChkSet ==
    \E v \in RawValues :
        /\ ChkSetEffect(v)
        /\ chkCall' = "set"
        /\ chkArg' = v

\* select(): lines 2731-2734
ChkSelect ==
    /\ ChkSetEffect(PyInt(1))
    /\ chkCall' = "select"
    /\ chkArg' = PyNone

\* deselect(): lines 2736-2739
ChkDeselect ==
    /\ ChkSetEffect(PyInt(0))
    /\ chkCall' = "deselect"
    /\ chkArg' = PyNone

\* toggle(): lines 2725-2729
ChkToggle ==
    /\ ChkSetEffect(IF Truthy(ChkGet) THEN PyInt(0) ELSE PyInt(1))
    /\ chkCall' = "toggle"
    /\ chkArg' = PyNone

\* The user clicks the Kivy CheckBox: active flips and on_checkbox_change
\* (lines 2680-2685) sets the variable.
ChkClick ==
    /\ chkKivy
    /\ chkActive' = ~chkActive
    /\ IF chkHasVar
       THEN VarSetEffect(IF ~chkActive THEN chkValue ELSE ChkOffValue(chkValue),
                         [i \in 1..Len(varCallbacks) |-> FALSE])
       ELSE UNCHANGED varVars
    /\ chkCall' = "click"
    /\ chkArg' = PyNone
    /\ UNCHANGED <<chkKivy, chkHasVar, chkValue, chkIsChecked>>

\* configure(value=v): lines 2767-2778
ChkConfigureValue ==
    /\ \E v \in RawValues : chkValue' = v
    /\ chkCall' = "configure"
    /\ chkArg' = PyNone
    /\ UNCHANGED <<chkKivy, chkHasVar, chkIsChecked, chkActive>>
    /\ UNCHANGED varVars

\* The program sets the bound variable itself; the checkbutton is not told.
ChkVariableSet ==
    /\ chkHasVar
    /\ VarSet
    /\ chkCall' = "variable.set"
    /\ chkArg' = PyNone
    /\ UNCHANGED <<chkKivy, chkHasVar, chkValue, chkIsChecked, chkActive>>

NextCheck ==
    \/ ChkSet /\ UNCHANGED exceptChk
    \/ ChkSelect /\ UNCHANGED exceptChk
    \/ ChkDeselect /\ UNCHANGED exceptChk
    \/ ChkToggle /\ UNCHANGED exceptChk
    \/ ChkClick /\ UNCHANGED exceptChk
    \/ ChkConfigureValue /\ UNCHANGED exceptChk
    \/ ChkVariableSet /\ UNCHANGED exceptChk

-----------------------------------------------------------------------------
(***************************************************************************)
(* FakeRadiobutton: several radiobuttons built with the same variable=     *)
(***************************************************************************)

\* Number of radiobuttons sharing the variable.
NumRadios == 2

Radios == 1..NumRadios
\* The value= options given to the radiobuttons.
RadioValues == {PyInt(0), PyInt(1), PyInt(2), PyStr("on")}

\* get(): lines 2890-2894
RadGet(i) ==
    IF radKivy THEN (IF radActive[i] THEN radValue[i] ELSE PyInt(0))
    ELSE (IF radSelected[i] THEN radValue[i] ELSE PyInt(0))

\* __init__ and _create_kivy_radiobutton: lines 2829-2888, for radiobuttons
\* built with variable= and value= (no 'selected' option, so _is_selected
\* starts False).
InitRadio ==
    /\ radKivy \in BOOLEAN
    /\ radValue \in [Radios -> RadioValues]
    /\ radSelected = [i \in Radios |-> FALSE]
    /\ radActive = [i \in Radios |-> radKivy /\ PyEq(varValue, radValue[i])]
    /\ radCall = "__init__"
    /\ radWho = 0

IdleRadio ==
    /\ radKivy = FALSE
    /\ radValue = [i \in Radios |-> PyInt(1)]
    /\ radSelected = [i \in Radios |-> FALSE]
    /\ radActive = [i \in Radios |-> FALSE]
    /\ radCall = "__init__"
    /\ radWho = 0

\* set(value): lines 2896-2908.  Only this radiobutton's own _is_selected and
\* active are assigned; assigning active from code does not go through the
\* CheckBox group (Kivy releases a group on a press only).  With Kivy, a
\* change of active to True dispatches on_radio_change (lines 2867-2872),
\* which sets the variable before set() sets it again.
RadSetEffect(i, value) ==
    LET is_selected == Truthy(value)
        dispatched == radKivy /\ is_selected /\ ~radActive[i]
    IN  /\ radSelected' = [radSelected EXCEPT ![i] = is_selected]
        /\ radActive' = IF radKivy THEN [radActive EXCEPT ![i] = is_selected] ELSE radActive
        /\ IF is_selected
           THEN IF dispatched THEN VarSetTwiceEffect(radValue[i])
                ELSE VarSetEffect(radValue[i], [k \in 1..Len(varCallbacks) |-> FALSE])
           ELSE UNCHANGED varVars
        /\ radWho' = i
        /\ UNCHANGED <<radKivy, radValue>>

RadSet ==
    \E i \in Radios, v \in RawValues :
        /\ RadSetEffect(i, v)
        /\ radCall' = "set"

\* select(): lines 2910-2913
RadSelect ==
    \E i \in Radios :
        /\ RadSetEffect(i, PyInt(1))
        /\ radCall' = "select"

\* deselect(): lines 2915-2918
RadDeselect ==
    \E i \in Radios :
        /\ RadSetEffect(i, PyInt(0))
        /\ radCall' = "deselect"

\* The user presses the i-th Kivy CheckBox: the press releases the other
\* members of the group (line 2852) and flips this one; becoming active
\* dispatches on_radio_change (lines 2867-2872).
RadClick ==
    /\ radKivy
    /\ \E i \in Radios :
          /\ radActive' = [j \in Radios |-> IF j = i THEN ~radActive[i] ELSE FALSE]
          /\ IF ~radActive[i]
             THEN VarSetEffect(radValue[i], [k \in 1..Len(varCallbacks) |-> FALSE])
             ELSE UNCHANGED varVars
          /\ radWho' = i
    /\ radCall' = "click"
    /\ UNCHANGED <<radKivy, radValue, radSelected>>

\* The program sets the shared variable itself; the radiobuttons are not told.
RadVariableSet ==
    /\ VarSet
    /\ radCall' = "variable.set"
    /\ radWho' = 0
    /\ UNCHANGED <<radKivy, radValue, radSelected, radActive>>

NextRadio ==
    \/ RadSet /\ UNCHANGED exceptRad
    \/ RadSelect /\ UNCHANGED exceptRad
    \/ RadDeselect /\ UNCHANGED exceptRad
    \/ RadClick /\ UNCHANGED exceptRad
    \/ RadVariableSet /\ UNCHANGED exceptRad

-----------------------------------------------------------------------------
(***************************************************************************)
(* Geometry managers and FakeTk.mainloop                                   *)
(***************************************************************************)
NumWidgets == 2
MaxGeomCalls == 3

GeoWidgets == 1..NumWidgets
Root == 0
NoLayout == -1
RootLayout == 0

\* Classes whose pack() also calls parent._add_child_to_layout.
LayoutClasses == {"Button", "Label", "Canvas", "Scrollbar"}
\* Classes whose pack() only appends to parent._widgets.
ListClasses == {"Notebook", "Entry", "Checkbutton", "Radiobutton", "Text"}
WidgetClasses == LayoutClasses \cup ListClasses \cup {"Frame"}
Texts == {"OK", "Cancel"}

\* The Kivy object of widget w: a Kivy widget (compared by identity) or,
\* without Kivy, the string f"Class({kwargs})" (compared by value).
KivyObj(w) ==
    IF geoKivy THEN <<"widget", w>> ELSE <<"str", geoCls[w], geoText[w]>>

\* An entry of a _widgets list; w is the widget the object belongs to.
Entry(w) == [w |-> w, obj |-> KivyObj(w)]

Objs(list) == {list[i].obj : i \in 1..Len(list)}

\* kivy_frame.add_widget(child) under the guard and try/except of
\* FakeFrame: skipped when the child is already among the children, and
\* WidgetException (the child has a parent) is caught and printed.
AddToFrame(f, w, st) ==
    IF /\ geoKivy
       /\ \A i \in 1..Len(st.children[f]) : st.children[f][i] # w
       /\ st.kparent[w] = NoLayout
    THEN [children |-> [st.children EXCEPT ![f] = Append(@, w)],
          kparent  |-> [st.kparent EXCEPT ![w] = f]]
    ELSE st

RECURSIVE AddAllToFrame(_, _, _)
AddAllToFrame(f, list, st) ==
    IF list = <<>> THEN st
    ELSE AddAllToFrame(f, Tail(list), AddToFrame(f, Head(list).w, st))

LayoutState == [children |-> geoChildren, kparent |-> geoKParent]

InitGeom ==
    /\ geoKivy \in BOOLEAN
    /\ geoCls \in [GeoWidgets -> WidgetClasses]
    /\ geoText \in [GeoWidgets -> Texts]
    /\ geoParent \in [GeoWidgets -> {Root} \cup GeoWidgets]
    /\ \A w \in GeoWidgets :
          geoParent[w] # Root => geoParent[w] < w /\ geoCls[geoParent[w]] = "Frame"
    /\ geoLists = [c \in {Root} \cup GeoWidgets |-> <<>>]
    /\ geoChildren = [f \in GeoWidgets |-> <<>>]
    /\ geoKParent = [w \in GeoWidgets |-> NoLayout]
    /\ geoPlaced = {}
    /\ geoPacked = {}
    /\ geoCall = "none"
    /\ geoWho = 0
    /\ geoMain = "not run"
    /\ geoLayout = <<>>
    /\ geoCalls = 0

IdleGeom ==
    /\ geoKivy = FALSE
    /\ geoCls = [w \in GeoWidgets |-> "Button"]
    /\ geoText = [w \in GeoWidgets |-> "OK"]
    /\ geoParent = [w \in GeoWidgets |-> Root]
    /\ geoLists = [c \in {Root} \cup GeoWidgets |-> <<>>]
    /\ geoChildren = [f \in GeoWidgets |-> <<>>]
    /\ geoKParent = [w \in GeoWidgets |-> NoLayout]
    /\ geoPlaced = {}
    /\ geoPacked = {}
    /\ geoCall = "none"
    /\ geoWho = 0
    /\ geoMain = "not run"
    /\ geoLayout = <<>>
    /\ geoCalls = 0

\* w.pack(): the effect on (parent._widgets, kivy_frame.children, parents).
\* dedupe is TRUE for FakeButton.place, which appends only an object that
\* is not yet in the list.
PackEffect(w, dedupe) ==
    LET p == geoParent[w]
        \* FakeFrame.pack first adds its own children to kivy_frame
        st0 == IF geoCls[w] = "Frame"
               THEN AddAllToFrame(w, geoLists[w], LayoutState)
               ELSE LayoutState
        \* a child of a FakeFrame goes into the frame's layout at once
        st1 == IF p # Root /\ geoCls[w] \in LayoutClasses
               THEN AddToFrame(p, w, st0)
               ELSE st0
    IN  /\ geoLists' = IF dedupe /\ KivyObj(w) \in Objs(geoLists[p])
                       THEN geoLists
                       ELSE [geoLists EXCEPT ![p] = Append(@, Entry(w))]
        /\ geoChildren' = st1.children
        /\ geoKParent' = st1.kparent
        /\ geoPlaced' = geoPlaced \cup {w}
        /\ geoWho' = w
        /\ geoCalls' = geoCalls + 1
        /\ UNCHANGED <<geoKivy, geoCls, geoParent, geoText, geoMain, geoLayout>>

Pack ==
    /\ geoMain = "not run"
    /\ geoCalls < MaxGeomCalls
    /\ \E w \in GeoWidgets : PackEffect(w, FALSE) /\ geoPacked' = geoPacked \cup {w}
    /\ geoCall' = "pack"

\* grid() is pack() in every class.
Grid ==
    /\ geoMain = "not run"
    /\ geoCalls < MaxGeomCalls
    /\ \E w \in GeoWidgets : PackEffect(w, FALSE)
    /\ geoCall' = "grid"
    /\ UNCHANGED geoPacked

\* place() is pack() except in FakeButton.
Place ==
    /\ geoMain = "not run"
    /\ geoCalls < MaxGeomCalls
    /\ \E w \in GeoWidgets : PackEffect(w, geoCls[w] = "Button")
    /\ geoCall' = "place"
    /\ UNCHANGED geoPacked

\* AutoApp.build: layout.add_widget for each entry of root._widgets in
\* order; add_widget raises WidgetException when the widget already has a
\* parent, which ends build and mainloop.  Returns the layout's children
\* and whether it raised.
RECURSIVE Build(_, _)
Build(list, built) ==
    IF list = <<>> THEN [layout |-> built, raised |-> FALSE]
    ELSE IF \/ geoKParent[Head(list).w] # NoLayout
            \/ \E i \in 1..Len(built) : built[i].w = Head(list).w
         THEN [layout |-> built, raised |-> TRUE]
         ELSE Build(Tail(list), Append(built, Head(list)))

Mainloop ==
    /\ geoMain = "not run"
    /\ IF geoKivy
       THEN LET b == Build(geoLists[Root], <<>>)
            IN  /\ geoMain' = IF b.raised THEN "raised" ELSE "built"
                /\ geoLayout' = b.layout
                /\ geoKParent' = [w \in GeoWidgets |->
                       IF \E i \in 1..Len(b.layout) : b.layout[i].w = w
                       THEN RootLayout ELSE geoKParent[w]]
       ELSE /\ geoMain' = "listed"
            /\ geoLayout' = geoLists[Root]
            /\ UNCHANGED geoKParent
    /\ geoCall' = "mainloop"
    /\ UNCHANGED <<geoKivy, geoCls, geoParent, geoText, geoLists, geoChildren,
                   geoPlaced, geoPacked, geoWho, geoCalls>>

NextGeom ==
    \/ Pack /\ UNCHANGED exceptGeom
    \/ Grid /\ UNCHANGED exceptGeom
    \/ Place /\ UNCHANGED exceptGeom
    \/ Mainloop /\ UNCHANGED exceptGeom

-----------------------------------------------------------------------------
(***************************************************************************)
(* translate_button                                                        *)
(***************************************************************************)
MaxArgs == 2

NotTranslated == <<"not translated">>
Punctuation == {",", "(", ")", "=", " ", "\"", ".", ":", "#", "\n"}

\* \w+ : a token made of word characters
IsWordTok(t) == t \notin Punctuation

\* str.strip()
RECURSIVE LStrip(_)
LStrip(s) == IF s # <<>> /\ Head(s) = " " THEN LStrip(Tail(s)) ELSE s
RECURSIVE RStrip(_)
RStrip(s) ==
    IF s # <<>> /\ s[Len(s)] = " " THEN RStrip(SubSeq(s, 1, Len(s) - 1)) ELSE s
Strip(s) == RStrip(LStrip(s))

\* Index of the first token equal to t at or after position i, Len(s)+1 if none.
IndexFrom(s, t, i) ==
    LET hits == {k \in i..Len(s) : s[k] = t}
    IN  IF hits = {} THEN Len(s) + 1
        ELSE CHOOSE k \in hits : \A h \in hits : k <= h

\* \s* : the first position at or after i that holds no space.
SkipSpaces(s, i) ==
    LET stops == {k \in i..Len(s) : s[k] # " "}
    IN  IF stops = {} THEN Len(s) + 1
        ELSE CHOOSE k \in stops : \A h \in stops : k <= h

\* str.split(',')
RECURSIVE SplitComma(_)
SplitComma(s) ==
    LET c == IndexFrom(s, ",", 1)
    IN  IF c > Len(s) THEN <<s>>
        ELSE <<SubSeq(s, 1, c - 1)>> \o SplitComma(SubSeq(s, c + 1, Len(s)))

\* sep.join(parts)
RECURSIVE Join(_, _)
Join(parts, sep) ==
    IF parts = <<>> THEN <<>>
    ELSE IF Len(parts) = 1 THEN parts[1]
    ELSE parts[1] \o sep \o Join(Tail(parts), sep)

\* param_mappings: the Kivy name, "None" for an option without equivalent,
\* "unmapped" for a name that is not a key.
param_mappings(name) ==
    CASE name = "text" -> "text"
      [] name = "command" -> "on_press"
      [] name = "width" -> "size_hint_x"
      [] name = "height" -> "size_hint_y"
      [] name \in {"bg", "background"} -> "background_color"
      [] name \in {"fg", "foreground"} -> "color"
      [] name = "font" -> "font_name"
      [] name = "state" -> "disabled"
      [] name \in {"relief", "bd", "borderwidth", "padx", "pady"} -> "None"
      [] OTHER -> "unmapped"

\* re.search(button_pattern, code): positions of "Button", "(" and the
\* first ")" after it, for the leftmost "Button" where all three exist.
ButtonMatches(code) ==
    {i \in 1..Len(code) :
        /\ code[i] = "Button"
        /\ LET j == SkipSpaces(code, i + 1)
           IN  /\ j <= Len(code)
               /\ code[j] = "("
               /\ IndexFrom(code, ")", j + 1) <= Len(code)}

\* match.group(1)
ButtonGroup(code) ==
    LET i == CHOOSE k \in ButtonMatches(code) : \A h \in ButtonMatches(code) : k <= h
        j == SkipSpaces(code, i + 1)
    IN  SubSeq(code, j + 1, IndexFrom(code, ")", j + 1) - 1)

\* The parent-dropping step: when the first comma-separated part holds no
\* '=', the remaining parts are stripped and joined again with ','.
stripParts(parts) == [k \in 1..Len(parts) |-> Strip(parts[k])]

DropParent(params_str) ==
    LET parts == stripParts(SplitComma(params_str))
    IN  IF \A k \in 1..Len(parts[1]) : parts[1][k] # "="
        THEN Join(Tail(parts), <<",">>)
        ELSE params_str

\* The lookahead (?=,\s*\w+\s*=|$) at position c.
LookaheadOk(s, c) ==
    \/ c = Len(s) + 1
    \/ /\ s[c] = ","
       /\ LET a == SkipSpaces(s, c + 1)
          IN  /\ a <= Len(s)
              /\ IsWordTok(s[a])
              /\ LET b == SkipSpaces(s, a + 1)
                 IN  b <= Len(s) /\ s[b] = "="

\* param_pattern matches at position p: a name, '=', at least one token
\* that is not a comma, up to the next comma or the end, where the
\* lookahead must hold ([^,]+? cannot cross a comma).
ParamValueStart(s, p) == SkipSpaces(s, p + 1) + 1

ParamMatchesAt(s, p) ==
    /\ IsWordTok(s[p])
    /\ LET j == SkipSpaces(s, p + 1)
       IN  /\ j <= Len(s)
           /\ s[j] = "="
           /\ j + 1 <= Len(s)
           /\ s[j + 1] # ","
           /\ LookaheadOk(s, IndexFrom(s, ",", j + 1))

\* re.findall(param_pattern, params_str) from position pos on.
RECURSIVE FindAllParams(_, _)
FindAllParams(s, pos) ==
    LET starts == {p \in pos..Len(s) : ParamMatchesAt(s, p)}
    IN  IF starts = {} THEN <<>>
        ELSE LET p == CHOOSE k \in starts : \A h \in starts : k <= h
                 v == ParamValueStart(s, p)
                 c == IndexFrom(s, ",", v)
             IN  <<[name |-> s[p], value |-> SubSeq(s, v, c - 1)]>>
                     \o FindAllParams(s, c)

\* re.search(r'(\w+)', param_value): the first run of word characters.
FirstWord(value) ==
    LET ws == {k \in 1..Len(value) : IsWordTok(value[k])}
    IN  IF ws = {} THEN <<>>
        ELSE <<value[CHOOSE k \in ws : \A h \in ws : k <= h]>>

\* 'DISABLED' in param_value.upper()
HasDisabled(value) ==
    \E k \in 1..Len(value) : value[k] \in {"DISABLED", "disabled", "Disabled"}

\* What one (param_name, param_value) pair appends to kivy_params.
KivyParamsOf(p) ==
    LET name == p.name
        value == Strip(p.value)
        kivy_param == param_mappings(name)
    IN  IF kivy_param = "unmapped"
        THEN << <<"#", " ", name, "=">> \o value
                   \o <<" ", " ", "#", " ", "No direct Kivy equivalent">> >>
        ELSE IF kivy_param = "None" \/ name = "command" THEN <<>>
        ELSE IF name = "state"
        THEN << <<"disabled", "=", IF HasDisabled(value) THEN "True" ELSE "False">> >>
        ELSE IF name \in {"width", "height"}
        THEN << <<kivy_param, "=", "None">>, <<name, "=">> \o value >>
        ELSE << <<kivy_param, "=">> \o value >>

\* What one pair appends to kivy_bindings.
KivyBindingsOf(p) ==
    IF p.name = "command" /\ FirstWord(Strip(p.value)) # <<>>
    THEN << <<"button", ".", "bind", "(", "on_press", "=">>
               \o FirstWord(Strip(p.value)) \o <<")">> >>
    ELSE <<>>

\* The Kivy call built from the lists kivy_params and kivy_bindings.
KivyCode(kivy_params, kivy_bindings) ==
    <<"Button", "(">> \o Join(kivy_params, <<",", " ">>) \o <<")">>
        \o (IF kivy_bindings # <<>>
            THEN <<"\n">> \o Join(kivy_bindings, <<"\n">>)
            ELSE <<>>)

CouldNotParse == <<"#", " ", "Could not parse tkinter Button call">>

translate_button(tkinter_button_code) ==
    IF ButtonMatches(tkinter_button_code) = {} THEN CouldNotParse
    ELSE LET params_str == DropParent(Strip(ButtonGroup(tkinter_button_code)))
             params == FindAllParams(params_str, 1)
         IN  KivyCode(Join([k \in 1..Len(params) |-> KivyParamsOf(params[k])], <<>>),
                      Join([k \in 1..Len(params) |-> KivyBindingsOf(params[k])], <<>>))

\* The calls given to translate_button.
Callees == {<<"Button">>, <<"tk", ".", "Button">>, <<"tk", ".", "Label">>}
ArgNames == {"text", "command", "width", "state", "font", "relief", "cursor"}
ArgValues ==
    { <<"cb">>,
      <<"10">>,
      <<"\"", "OK", "\"">>,
      <<"tk", ".", "DISABLED">>,
      <<"(", "\"", "Arial", "\"", ",", " ", "12", ")">> }
ButtonArgs == [name : ArgNames, value : ArgValues]

ArgLists == UNION {[1..n -> ButtonArgs] : n \in 0..MaxArgs}

\* The source text of a call: callee(parent, name=value, ...)
CallText(callee, parent, args) ==
    callee \o <<"(">>
        \o Join((IF parent THEN << <<"root">> >> ELSE <<>>)
                  \o [k \in 1..Len(args) |-> <<args[k].name, "=">> \o args[k].value],
                <<",", " ">>)
        \o <<")">>

InitButton ==
    /\ btnCallee \in Callees
    /\ btnParent \in BOOLEAN
    /\ btnArgs \in ArgLists
    /\ btnInput = CallText(btnCallee, btnParent, btnArgs)
    /\ btnOutput = NotTranslated

IdleButton ==
    /\ btnCallee = <<"Button">>
    /\ btnParent = FALSE
    /\ btnArgs = <<>>
    /\ btnInput = CallText(<<"Button">>, FALSE, <<>>)
    /\ btnOutput = NotTranslated

TranslateButton ==
    /\ btnOutput = NotTranslated
    /\ btnOutput' = translate_button(btnInput)
    /\ UNCHANGED <<btnCallee, btnParent, btnArgs, btnInput>>

NextButton ==
    \/ TranslateButton /\ UNCHANGED exceptBtn

-----------------------------------------------------------------------------
(***************************************************************************)
(* translate                                                               *)
(***************************************************************************)
MaxLines == 4

NotReturned == << <<"not returned">> >>

\* The (stripped) lines fed to translate.
SourceLines ==
    { "import tkinter as tk",
      "from tkinter import *",
      "root = tk.Tk()",
      "Tk()",
      "root = tk.Tk(className='app')",
      "root.title('My App')",
      "root.mainloop()",
      "b = tk.Button(root, text='OK')",
      "b = tk.Button(root, text='OK', command=cb)",
      "b.pack()",
      "def cb():",
      "x = 1",
      "# a comment",
      "" }

\* re.search(r'import\s+tkinter|from\s+tkinter', line_stripped)
IsImportLine(line) == line \in {"import tkinter as tk", "from tkinter import *"}
\* re.search(r'(?:tk\.)?Tk\(\)', line_stripped): the parentheses must be empty
IsTkLine(line) == line \in {"root = tk.Tk()", "Tk()"}
\* '=' in line_stripped
HasEquals(line) ==
    line \in {"root = tk.Tk()", "root = tk.Tk(className='app')",
              "b = tk.Button(root, text='OK')",
              "b = tk.Button(root, text='OK', command=cb)", "x = 1"}
\* re.search(r'\.title\(|\.geometry\(|\.resizable\(', line_stripped)
IsConfigLine(line) == line = "root.title('My App')"
\* re.search(r'\.mainloop\(\)', line_stripped)
IsMainloopLine(line) == line = "root.mainloop()"
\* re.search(r'(?:tk\.)?Button\s*\(', line_stripped)
IsButtonLine(line) ==
    line \in {"b = tk.Button(root, text='OK')",
              "b = tk.Button(root, text='OK', command=cb)"}
\* 'button.bind' in translate_button(line_stripped): the call has a command
HasBinding(line) == line = "b = tk.Button(root, text='OK', command=cb)"
\* re.search(r'\.pack\(\)|\.grid\(\)|\.place\(\)', line_stripped)
IsGeometryLine(line) == line = "b.pack()"
\* line_stripped and not line_stripped.startswith('#')
IsCode(line) == line \notin {"", "# a comment"}
\* line_stripped.startswith('def ') or line_stripped.startswith('class ')
IsDefLine(line) == line = "def cb():"
\* re.search(r'root\s*=', line_stripped)
IsRootAssignment(line) ==
    line \in {"root = tk.Tk()", "root = tk.Tk(className='app')"}

\* An output line given by its text.
Literal(text) == <<"text", text>>

ImportBlock ==
    << Literal("from kivy.app import App"),
       Literal("from kivy.uix.boxlayout import BoxLayout"),
       Literal("from kivy.uix.button import Button"),
       Literal("from kivy.uix.label import Label"),
       Literal("from kivy.uix.textinput import TextInput"),
       Literal("") >>

BuildHeader ==
    << Literal("class MainApp(App):"),
       Literal("    def build(self):"),
       Literal("        self.layout = BoxLayout(orientation='vertical')"),
       Literal("") >>

BuildFooter ==
    << Literal(""),
       Literal("        return self.layout"),
       Literal(""),
       Literal("if __name__ == '__main__':"),
       Literal("    MainApp().run()") >>

\* f"        {line}", f"        # {line}  # ..." and the lines made from
\* translate_button's result, kept as (kind, source line) pairs.
Indented(line) == <<"indented", line>>
Commented(line, why) == <<"comment", line, why>>
ButtonLine(line) == <<"button =", line>>
BindLine(line) == <<"button.bind", line>>

InitTranslate ==
    /\ trInput = <<>>
    /\ kivy_lines = <<>>
    /\ imports_added = FALSE
    /\ app_structure_added = FALSE
    /\ in_build_method = FALSE
    /\ trResult = NotReturned

IdleTranslate == InitTranslate

\* One iteration of "for line in lines" on the line given.
TranslateLineEffect(line) ==
    /\ trInput' = Append(trInput, line)
    /\ UNCHANGED trResult
    /\ IF IsImportLine(line)
       THEN /\ kivy_lines' = IF imports_added THEN kivy_lines
                             ELSE kivy_lines \o ImportBlock
            /\ imports_added' = TRUE
            /\ UNCHANGED <<app_structure_added, in_build_method>>
       ELSE IF IsTkLine(line)
       THEN /\ kivy_lines' =
                  (IF app_structure_added THEN kivy_lines
                   ELSE kivy_lines \o BuildHeader)
                  \o (IF HasEquals(line)
                      THEN <<Commented(line, "Root window - replaced by App.build()")>>
                      ELSE <<>>)
            /\ app_structure_added' = TRUE
            /\ in_build_method' = (app_structure_added => in_build_method)
            /\ UNCHANGED imports_added
       ELSE IF IsConfigLine(line)
       THEN /\ kivy_lines' = Append(kivy_lines,
                  Commented(line, "Window config - handle in App if needed"))
            /\ UNCHANGED <<imports_added, app_structure_added, in_build_method>>
       ELSE IF IsMainloopLine(line)
       THEN /\ kivy_lines' = kivy_lines \o BuildFooter
            /\ in_build_method' = FALSE
            /\ UNCHANGED <<imports_added, app_structure_added>>
       ELSE IF IsButtonLine(line)
       THEN /\ kivy_lines' = kivy_lines
                  \o <<ButtonLine(line)>>
                  \o (IF HasBinding(line) THEN <<BindLine(line)>> ELSE <<>>)
                  \o <<Literal("        self.layout.add_widget(button)")>>
            /\ UNCHANGED <<imports_added, app_structure_added, in_build_method>>
       ELSE IF IsGeometryLine(line)
       THEN /\ kivy_lines' = Append(kivy_lines,
                  Literal("        # Layout handled by add_widget() above"))
            /\ UNCHANGED <<imports_added, app_structure_added, in_build_method>>
       ELSE /\ kivy_lines' =
                  IF ~IsCode(line) THEN Append(kivy_lines, Literal(line))
                  ELSE IF ~app_structure_added \/ IsDefLine(line)
                  THEN Append(kivy_lines, Literal(line))
                  ELSE IF IsRootAssignment(line) THEN kivy_lines
                  ELSE IF in_build_method THEN Append(kivy_lines, Indented(line))
                  ELSE Append(kivy_lines, Literal(line))
            /\ UNCHANGED <<imports_added, app_structure_added, in_build_method>>

TranslateLine ==
    /\ trResult = NotReturned
    /\ Len(trInput) < MaxLines
    /\ \E line \in SourceLines : TranslateLineEffect(line)

\* return '\n'.join(kivy_lines)
TranslateReturn ==
    /\ trResult = NotReturned
    /\ trResult' = kivy_lines
    /\ UNCHANGED <<trInput, kivy_lines, imports_added, app_structure_added,
                   in_build_method>>

NextTranslate ==
    \/ TranslateLine /\ UNCHANGED exceptTr
    \/ TranslateReturn /\ UNCHANGED exceptTr

-----------------------------------------------------------------------------
(***************************************************************************)
(* Specifications                                                          *)
(***************************************************************************)

NextModules ==
    \/ AutoTranslateMode /\ UNCHANGED exceptMod
    \/ DisableAutoTranslate /\ UNCHANGED exceptMod
    \/ ImportReal /\ UNCHANGED exceptMod

InitSpecModules == InitModules /\ IdleVar /\ IdleAfter /\ IdleWm /\ IdleCheck /\ IdleRadio /\ IdleGeom /\ IdleButton /\ IdleTranslate

SpecModules == InitSpecModules /\ [][NextModules]_vars

InitSpecVar == InitVar /\ IdleModules /\ IdleAfter /\ IdleWm /\ IdleCheck /\ IdleRadio /\ IdleGeom /\ IdleButton /\ IdleTranslate

SpecVar == InitSpecVar /\ [][NextVar]_vars

InitSpecAfter == InitAfter /\ IdleModules /\ IdleVar /\ IdleWm /\ IdleCheck /\ IdleRadio /\ IdleGeom /\ IdleButton /\ IdleTranslate

SpecAfter == InitSpecAfter /\ [][NextAfter]_vars

InitSpecWm == InitWm /\ IdleModules /\ IdleVar /\ IdleAfter /\ IdleCheck /\ IdleRadio /\ IdleGeom /\ IdleButton /\ IdleTranslate

SpecWm == InitSpecWm /\ [][NextWm]_vars

InitSpecCheck == InitVar /\ InitCheck /\ IdleModules /\ IdleAfter /\ IdleWm /\ IdleRadio /\ IdleGeom /\ IdleButton /\ IdleTranslate

SpecCheck == InitSpecCheck /\ [][NextCheck]_vars

InitSpecRadio == InitVar /\ InitRadio /\ IdleModules /\ IdleAfter /\ IdleWm /\ IdleCheck /\ IdleGeom /\ IdleButton /\ IdleTranslate

SpecRadio == InitSpecRadio /\ [][NextRadio]_vars

InitSpecGeom == InitGeom /\ IdleModules /\ IdleVar /\ IdleAfter /\ IdleWm /\ IdleCheck /\ IdleRadio /\ IdleButton /\ IdleTranslate
SpecGeom == InitSpecGeom /\ [][NextGeom]_vars

InitSpecButton == InitButton /\ IdleModules /\ IdleVar /\ IdleAfter /\ IdleWm /\ IdleCheck /\ IdleRadio /\ IdleGeom /\ IdleTranslate
SpecButton == InitSpecButton /\ [][NextButton]_vars

InitSpecTranslate == InitTranslate /\ IdleModules /\ IdleVar /\ IdleAfter /\ IdleWm /\ IdleCheck /\ IdleRadio /\ IdleGeom /\ IdleButton
SpecTranslate == InitSpecTranslate /\ [][NextTranslate]_vars


\* C1: right after auto_translate_mode() returns, sys.modules maps the four
\* tkinter names to the fake modules built by that call, the returned module
\* is sys.modules['tkinter'], and its font, ttk and messagebox attributes are
\* the three sub-module entries.
C1_FakeModulesRegistered ==
    modOp = "auto" =>
        /\ \A n \in ModNames : sys_modules[n] = FakeModule(n, nFake)
        /\ lastRet = sys_modules["tkinter"]
        /\ \A n \in SubNames : modAttrs[lastRet.gen][n] = sys_modules[n]

\* C1 witness: a call made after a disable_auto_translate() has replaced an
\* earlier call's fakes, with the real tkinter registered before the shim was
\* imported.
C1_Witness ==
    /\ modOp = "auto"
    /\ modHist = "other"
    /\ nFake = 2
    /\ firstOriginal = RealModule("tkinter")
    /\ sys_modules["tkinter.ttk"] = FakeModule("tkinter.ttk", 2)

\* C2: after one or more auto_translate_mode() calls followed by
\* disable_auto_translate(), sys.modules['tkinter'] is what was registered
\* before the first call (or absent if nothing was), never a fake module.
C2_DisableRestoresOriginal ==
    modHist = "autos_disable" =>
        /\ sys_modules["tkinter"] = firstOriginal
        /\ sys_modules["tkinter"].kind # "fake"

\* C3: a set() whose stored (converted) value differs from the previously
\* stored one invokes every registered trace callback exactly once, in
\* registration order; a set() that leaves the stored value equal invokes none.
C3_SetNotifiesOnChange ==
    varOp = "set" =>
        IF ~PyEq(varOld, varValue)
        THEN [i \in 1..Len(varLog) |-> varLog[i].callback] = varCallbacks
        ELSE varLog = <<>>

\* C3 witness: an IntVar with two different callbacks registered whose value
\* set() changed; both were invoked although the first one raised.
C3_Witness ==
    /\ varOp = "set"
    /\ varKind = "IntVar"
    /\ ~PyEq(varOld, varValue)
    /\ Len(varCallbacks) = 2
    /\ varCallbacks[1] # varCallbacks[2]
    /\ Len(varLog) = 2
    /\ varLog[1].raised

\* C4: once trace_remove() was called with the name trace() returned for a
\* callback, that callback is not listed by trace_info() and is not invoked
\* by a later set().
C4_TraceRemoveRemoves ==
    \A i \in 1..Len(varNames) :
        varNames[i].name \in varRemoved =>
            /\ \A j \in 1..Len(varCallbacks) :
                  TraceInfo(varCallbacks)[j].callback # varNames[i].callback
            /\ varOp = "set" =>
                  \A j \in 1..Len(varLog) : varLog[j].callback # varNames[i].callback

\* C5: after() returns a job id without having run func on the calling
\* thread, and func(*args) is run exactly once on a worker thread: never more
\* than once, never by the caller, and once by the time the worker has ended.
C5_AfterRunsOnceOnWorker ==
    \A i \in 1..Len(afterThreads) :
        LET t == afterThreads[i] IN
        /\ t.ranOn # "caller"
        /\ t.runs <= 1
        /\ (i # afterPending) => t.jobId \in JobIds
        /\ t.pc \in {"done", "died"} => t.runs = 1

\* C6: a job cancelled with the id after() returned, before its callback
\* started, never runs its callback.
C6_CancelPreventsRun ==
    \A i \in 1..Len(afterThreads) :
        afterThreads[i].cancelled => afterThreads[i].runs = 0

\* C10: wm_state(s) immediately followed by wm_state() returns s, whatever
\* came before, and wm_state() right after deiconify() returns 'normal'.
C10_WmStateRoundTrip ==
    wmCall = "wm_state?" =>
        /\ wmBefore[1] = "wm_state" => wmRet = wmBefore[2]
        /\ wmBefore[1] = "deiconify" => wmRet = "normal"

\* C9 as stated: after select() or set(truthy) the variable equals the
\* checkbutton's value as converted by the variable's type; after deselect()
\* or set(falsy) it holds 0 when the value is an int and '' otherwise.
C9_VariableFollowsCheckbutton ==
    (chkHasVar /\ chkCall \in {"select", "deselect", "set"}) =>
        IF chkCall = "select" \/ (chkCall = "set" /\ Truthy(chkArg))
        THEN PyEq(varValue, VarConv(varKind, chkValue))
        ELSE PyEq(varValue, IF IsInstanceInt(chkValue) THEN PyInt(0) ELSE PyStr(""))

\* C9 amended: after deselect() or set(falsy) the variable holds 0 (value an
\* int) or '' (otherwise) as converted by the variable's type; after select()
\* or set(truthy) it holds the value as converted by the variable's type.
C9_VariableFollowsCheckbuttonConverted ==
    (chkHasVar /\ chkCall \in {"select", "deselect", "set"}) =>
        IF chkCall = "select" \/ (chkCall = "set" /\ Truthy(chkArg))
        THEN varValue = VarConv(varKind, chkValue)
        ELSE varValue = IF IsInstanceInt(chkValue)
                        THEN VarConv(varKind, PyInt(0))
                        ELSE VarConv(varKind, PyStr(""))

\* C9 witness: with Kivy, a StringVar-bound checkbutton whose value is the
\* int 1 was deselected after having been checked: the variable holds "0".
C9_Witness ==
    /\ chkHasVar /\ chkKivy
    /\ chkCall = "deselect"
    /\ varKind = "StringVar"
    /\ chkValue = PyInt(1)
    /\ varOld = PyStr("1")
    /\ varValue = PyStr("0")

\* C8: after select() on one radiobutton the shared variable holds that
\* radiobutton's value (as the variable's class stores it) and every other
\* radiobutton built with the same variable reports get() == 0.
C8_RadioGroupExclusive ==
    (radCall = "select" /\ radWho \in Radios) =>
        /\ varValue = VarConv(varKind, radValue[radWho])
        /\ \A j \in Radios \ {radWho} : PyEq(RadGet(j), PyInt(0))


\* C7: for a widget whose parent is the FakeTk root, pack(), grid() and
\* place() each leave the widget's Kivy object in root._widgets; mainloop()
\* builds (with Kivy) or lists (without) exactly the objects of
\* root._widgets in the order they were added; and a widget that was never
\* packed, gridded or placed is not among what is shown.
C7_MainloopShowsPackedWidgets ==
    /\ (geoCall \in {"pack", "grid", "place"} /\ geoParent[geoWho] = Root)
          => KivyObj(geoWho) \in Objs(geoLists[Root])
    /\ geoMain # "not run"
          => /\ geoMain \in {"built", "listed"}
             /\ geoLayout = geoLists[Root]
             /\ \A w \in GeoWidgets \ geoPlaced :
                   \A i \in 1..Len(geoLayout) : geoLayout[i].w # w


\* C11: winfo_exists() on a FakeTk returns True exactly while destroy() has
\* not been called on that window, and False afterwards.
C11_WinfoExistsFollowsDestroy ==
    wmCall = "winfo_exists" => (wmRet = "True" <=> wmDestroyed # "True")


\* C12: translate_button accounts for every keyword argument of the Button
\* call exactly once, in order: a mapped option under its Kivy name with its
\* full value, width as size_hint_x=None plus width=value, state as
\* disabled=True/False, command=f as a following line button.bind(on_press=f),
\* options without Kivy equivalent omitted, the parent dropped; text without
\* a Button( call gives '# Could not parse tkinter Button call'.  Values may
\* contain commas and parentheses.
C12_TranslateButtonAccountsForEveryArg ==
    LET known == \A k \in 1..Len(btnArgs) : param_mappings(btnArgs[k].name) # "unmapped"
        item(a) ==
            LET kivy_param == param_mappings(a.name)
            IN  IF kivy_param = "None" \/ a.name = "command" THEN <<>>
                ELSE IF a.name = "state"
                THEN << <<"disabled", "=",
                          IF HasDisabled(a.value) THEN "True" ELSE "False">> >>
                ELSE IF a.name = "width"
                THEN << <<"size_hint_x", "=", "None">>, <<"width", "=">> \o a.value >>
                ELSE << <<kivy_param, "=">> \o a.value >>
        binding(a) ==
            IF a.name = "command"
            THEN << <<"button", ".", "bind", "(", "on_press", "=">> \o a.value \o <<")">> >>
            ELSE <<>>
        items == Join([k \in 1..Len(btnArgs) |-> item(btnArgs[k])], <<>>)
        bindings == Join([k \in 1..Len(btnArgs) |-> binding(btnArgs[k])], <<>>)
    IN  btnOutput # NotTranslated =>
            IF btnCallee[Len(btnCallee)] # "Button"
            THEN btnOutput = CouldNotParse
            ELSE known =>
                    btnOutput = <<"Button", "(">> \o Join(items, <<",", " ">>) \o <<")">>
                                  \o (IF bindings # <<>>
                                      THEN <<"\n">> \o Join(bindings, <<"\n">>)
                                      ELSE <<>>)


\* C13: with Kivy, once pack() has been called on a child of a FakeFrame and
\* on the frame, in either order, the child's Kivy widget is among the
\* children of frame.kivy_frame, whatever the class of the child.
C13_PackedChildIsInFrame ==
    geoKivy =>
        \A w \in GeoWidgets :
            (geoParent[w] # Root /\ w \in geoPacked /\ geoParent[w] \in geoPacked)
                => \E i \in 1..Len(geoChildren[geoParent[w]]) :
                        geoChildren[geoParent[w]][i] = w


C15_HeadersAtMostOnce ==
    LET Count(l) == Cardinality({i \in 1..Len(trResult) : trResult[i] = Literal(l)})
    IN  trResult # NotReturned =>
            /\ Count("from kivy.app import App") <= 1
            /\ Count("class MainApp(App):") <= 1
            /\ Count("    def build(self):") <= 1
            /\ \A i \in 1..Len(trResult) :
                  trResult[i] = Literal("        return self.layout")
                      => \E j \in 1..(i - 1) : trResult[j] = Literal("    def build(self):")

=============================================================================
